---------------------------- MODULE Spec2Model ----------------------------
(***************************************************************************)
(* formap: formToMap(formElement, {mutator, append, prepend}) of           *)
(* src/src/index.ts, as a state machine.                                   *)
(*                                                                         *)
(* One call of formToMap is a pass  validate -> prepend -> query -> fold   *)
(* -> append -> mutate -> return; every iteration of a loop of the source  *)
(* (a forEach callback, a turn of the for loop) is one step.  The caller's *)
(* form and options are chosen in Init and are never assigned afterwards,  *)
(* so a second call sees the same objects: whatever the first call did to  *)
(* the arrays they reference is still there.                               *)
(*                                                                         *)
(* JavaScript values are records [k, s, r]: k the kind, s the text of a    *)
(* string, r the address of an array in the heap.  Arrays are objects:     *)
(* two values with the same r are the same array.                          *)
(***************************************************************************)
EXTENDS Integers, Sequences, FiniteSets, TLC

(* ------------------------------ bounds -------------------------------- *)

\* longest form (number of descendant elements) of the fold family
MaxControls == 3
\* longest form of the families that vary the element kinds or the options
MaxSeededControls == 2
\* number of calls of formToMap made on the same form and options
MaxCalls == 2

(* --------------------------- JavaScript values ------------------------ *)

Undefined == [k |-> "undefined", s |-> "", r |-> 0]
Null      == [k |-> "null",      s |-> "", r |-> 0]
Str(s)    == [k |-> "string",    s |-> s,  r |-> 0]
Arr(r)    == [k |-> "array",     s |-> "", r |-> r]

\* v == null  (true of null and of undefined, of nothing else: "" is not null)
IsNullish(v) == v.k \in {"undefined", "null"}

\* Array.isArray(v)
IsArray(v) == v.k = "array"

\* the indexes of a sequence
Indexes(seq) == 1..Len(seq)

(* ------------------------- the built-in Map --------------------------- *)
(* ECMAScript's Map keeps a list of entries.  set() of a present key       *)
(* replaces the value in place, set() of an absent key appends an entry,   *)
(* delete() empties the entry without removing it from the list (so that   *)
(* a running forEach keeps its position), get() of an absent key is        *)
(* undefined.                                                              *)

MapIndex(m, key) ==
    IF \E j \in Indexes(m) : m[j].live /\ m[j].key = key
    THEN CHOOSE j \in Indexes(m) : m[j].live /\ m[j].key = key
    ELSE 0

MapHas(m, key) == MapIndex(m, key) # 0

MapGet(m, key) == IF MapHas(m, key) THEN m[MapIndex(m, key)].val ELSE Undefined

\* MapSet that moves a present key to the end of the list instead of keeping
\* its place
MapSetReinsert(m, key, v) ==
    IF MapHas(m, key)
    THEN Append([m EXCEPT ![MapIndex(m, key)].live = FALSE],
                [key |-> key, val |-> v, live |-> TRUE])
    ELSE Append(m, [key |-> key, val |-> v, live |-> TRUE])

MapSet(m, key, v) ==
    IF MapHas(m, key)
    THEN [m EXCEPT ![MapIndex(m, key)].val = v]
    ELSE Append(m, [key |-> key, val |-> v, live |-> TRUE])

MapDelete(m, key) ==
    IF MapHas(m, key)
    THEN [m EXCEPT ![MapIndex(m, key)].live = FALSE]
    ELSE m

IsLive(e) == e.live

\* the entries a reader of the map sees, in the map's order
MapEntries(m) == SelectSeq(m, IsLive)

(* ------------------------------ the form ------------------------------ *)
(* A descendant element of the container: its tag, whether it carries a    *)
(* name attribute and the name property ("" without the attribute),        *)
(* whether it is disabled, its type property (always lower case in the     *)
(* DOM), value, checked, multiple, the values of its selected options,     *)
(* and whether it has a callable getValue with what that returns.          *)

Ctl(tag, hasName, name, disabled, type, value, checked, multiple, selected, custom, ret) ==
    [tag |-> tag, hasName |-> hasName, name |-> name, disabled |-> disabled,
     type |-> type, value |-> value, checked |-> checked, multiple |-> multiple,
     selected |-> selected, custom |-> custom, ret |-> ret]

Input(name, type, value, checked) ==
    Ctl("input", TRUE, name, FALSE, type, value, checked, FALSE, <<>>, FALSE, Undefined)

TextInput(name, value) == Input(name, "text", value, FALSE)

SelectMultiple(name, selected) ==
    Ctl("select", TRUE, name, FALSE, "select-multiple",
        IF selected = <<>> THEN "" ELSE selected[1], FALSE, TRUE, selected, FALSE, Undefined)

\* an input of the given type and checked state that also has a getValue()
Custom(name, type, checked, ret) ==
    Ctl("input", TRUE, name, FALSE, type, "v", checked, FALSE, <<>>, TRUE, ret)

\* addresses of the arrays the caller owns before the first call
CallerArrays == {1, 2}

\* the heap before the first call: the caller's two arrays
InitialHeap == << <<Str("s")>>, <<Str("t")>> >>

\* controls that reach the fold with a value of every shape
ValueKinds ==
    { TextInput("x", "a"),
      TextInput("x", ""),
      TextInput("y", "b"),
      Input("x", "checkbox", "c", TRUE),
      Input("x", "checkbox", "c", FALSE),
      Input("y", "radio", "r", FALSE),
      SelectMultiple("x", <<"a", "b">>),
      SelectMultiple("y", <<>>) }

\* controls with a getValue(): it wins over the native value, and may return
\* anything, undefined and one of the caller's own arrays included
CustomKinds ==
    { Custom("x", "text", FALSE, Undefined),
      Custom("x", "checkbox", FALSE, Str("g")),
      Custom("y", "checkbox", TRUE, Null),
      Custom("x", "text", FALSE, Arr(2)) }

\* elements on the edge of the eligibility filter
EdgeKinds ==
    { Input("x", "submit", "go", FALSE),
      Input("x", "button", "b", FALSE),
      Input("x", "reset", "r", FALSE),
      Input("x", "file", "f.txt", FALSE),
      Input("x", "hidden", "h", FALSE),
      Ctl("input", TRUE, "x", TRUE, "text", "a", FALSE, FALSE, <<>>, FALSE, Undefined),
      Ctl("input", FALSE, "", FALSE, "text", "a", FALSE, FALSE, <<>>, FALSE, Undefined),
      Ctl("input", TRUE, "", FALSE, "text", "e", FALSE, FALSE, <<>>, FALSE, Undefined),
      Ctl("textarea", TRUE, "y", FALSE, "textarea", "t", FALSE, FALSE, <<>>, FALSE, Undefined),
      Ctl("select", TRUE, "y", FALSE, "select-one", "o", FALSE, FALSE, <<"o">>, FALSE, Undefined),
      Ctl("div", TRUE, "x", FALSE, "", "", FALSE, FALSE, <<>>, FALSE, Undefined),
      Ctl("fieldset", TRUE, "x", FALSE, "fieldset", "", FALSE, FALSE, <<>>, FALSE, Undefined) }

\* controls of the families that vary the options
SeededKinds ==
    { TextInput("x", "a"),
      TextInput("y", "b"),
      Input("x", "checkbox", "c", FALSE),
      SelectMultiple("x", <<"a", "b">>),
      Custom("x", "text", FALSE, Undefined) }

\* all sequences over S of length at most n
SeqsUpTo(S, n) == UNION { [1..m -> S] : m \in 0..n }


(* ------------------------------ options ------------------------------- *)
(* A seed (prepend or append) is a Map or a plain object: either way a     *)
(* list of entries with distinct keys, read in the seed's own order        *)
(* (Map.forEach, Object.entries), each entry given to data.set.  A seed     *)
(* that is absent has no entries.  Seed values are JSON values (the type   *)
(* IFormAppend); what getValue() returns is not typed at all.              *)

NoSeed == [given |-> FALSE, entries |-> <<>>]

Seed(entries) == [given |-> TRUE, entries |-> entries]

Entry(key, val) == [key |-> key, val |-> val]

PrependSeeds ==
    { NoSeed,
      Seed(<<Entry("x", Str("p"))>>),
      Seed(<<Entry("x", Null)>>),
      Seed(<<Entry("x", Arr(1))>>),
      Seed(<<Entry("z", Str("p")), Entry("y", Str("q"))>>) }

AppendSeeds ==
    { NoSeed,
      Seed(<<Entry("x", Str("q"))>>),
      Seed(<<Entry("x", Arr(1))>>),
      Seed(<<Entry("w", Null), Entry("y", Arr(2))>>) }

\* "none": no mutator is given; the others are the mutator functions tried
Mutators == {"none", "identity", "deleteAll", "constant", "deleteX"}

\* mutator(key, value) of a given mutator function
ApplyMutator(mutator, key, value) ==
    CASE mutator = "identity"  -> value
      [] mutator = "deleteAll" -> Undefined
      [] mutator = "constant"  -> Str("m")
      [] mutator = "deleteX"   -> IF key = "x" THEN Undefined ELSE value
      [] OTHER                 -> value

Options(mutator, append, prepend) ==
    [mutator |-> mutator, append |-> append, prepend |-> prepend]

\* what the caller may pass as formElement
Containers == {"form", "div", "null"}

Form(container, descendants) == [container |-> container, descendants |-> descendants]

(* ------------------------------- state -------------------------------- *)

VARIABLES
    form,         \* the caller's formElement argument and its descendants
    options,      \* the caller's options object
    heap,         \* every array there is, by address
    heap0,        \* history: the heap as it stood when the running call began
    data,         \* the Map of the running call
    pc,           \* where the running call is
    children,     \* const children = [...formElement.querySelectorAll(...)]
    i,            \* the for loop's index, counted from 0
    k,            \* entries of the seed read so far by the running forEach
    mi,           \* position of data.forEach in the Map's entry list
    walked,       \* history: the (element, name, value) triples given to the fold
    events,       \* history: what the running call has done, in order
    calls,        \* history: the running call's mutator invocations
    preMutation,  \* history: the mapping as it stood when the append step ended
    results,      \* history: the mappings returned so far, arrays by content
    ncalls        \* calls of formToMap started so far

vars == <<form, options, heap, heap0, data, pc, children, i, k, mi, walked, events,
          calls, preMutation, results, ncalls>>

\* a value with an array replaced by its content: what structural equality compares
Snapshot(v, h) == [k |-> v.k, s |-> v.s, a |-> IF IsArray(v) THEN h[v.r] ELSE <<>>]

\* a mapping (a list of live entries) with every value replaced by its snapshot
SnapshotMap(m, h) ==
    [j \in Indexes(MapEntries(m)) |->
        [key |-> MapEntries(m)[j].key, val |-> Snapshot(MapEntries(m)[j].val, h)]]


(* --------------------------- the form walker -------------------------- *)

\* IsFormElement with the instanceof test left out: only "!formElement" rejects
IsFormElementTruthyOnly(f) == f.container # "null"

\* formElement && formElement instanceof HTMLFormElement
IsFormElement(f) == f.container = "form"

\* the selector ":is(input, select, textarea)[name]:enabled": [name] asks for the
\* attribute, whatever its value
Matches(c) == c.tag \in {"input", "select", "textarea"} /\ c.hasName /\ ~c.disabled

\* formElement.querySelectorAll(selector): the matching descendants in document order
QuerySelectorAll(f) == SelectSeq(f.descendants, Matches)

\* ["submit", "button", "reset", "file"].includes(child.type.toLowerCase())
IsSkippedType(c) == c.type \in {"submit", "button", "reset", "file"}

\* child instanceof HTMLInputElement && ["checkbox", "radio"].includes(child.type...)
IsInputCheckable(c) == c.tag = "input" /\ c.type \in {"checkbox", "radio"}

\* the strings of a list as values
StrsOf(strings) == [j \in Indexes(strings) |-> Str(strings[j])]

\* getChildValue(child), run on heap h: the value and the heap afterwards (the
\* array of a select-multiple's selected options is a new one)
GetChildValue(c, h) ==
    IF c.custom
    THEN [val |-> c.ret, heap |-> h]
    ELSE IF c.tag = "select" /\ c.multiple
    THEN [val |-> Arr(Len(h) + 1), heap |-> Append(h, StrsOf(c.selected))]
    ELSE IF IsInputCheckable(c)
    THEN [val |-> IF c.checked THEN Str(c.value) ELSE Null, heap |-> h]
    ELSE [val |-> Str(c.value), heap |-> h]

(* --------------------------- the merge engine ------------------------- *)

\* Fold with the two values of a scalar collision in the wrong order
FoldNewestFirst(d, h, childName, childValue) ==
    LET previousValue == MapGet(d, childName) IN
    IF IsNullish(previousValue)
    THEN [data |-> MapSet(d, childName, childValue), heap |-> h]
    ELSE IF IsNullish(childValue)
    THEN [data |-> d, heap |-> h]
    ELSE IF IsArray(previousValue)
    THEN [data |-> MapSet(d, childName, previousValue),
          heap |-> [h EXCEPT ![previousValue.r] =
                        IF IsArray(childValue)
                        THEN @ \o h[childValue.r]
                        ELSE Append(@, childValue)]]
    ELSE [data |-> MapSet(d, childName, Arr(Len(h) + 1)),
          heap |-> Append(h, IF IsArray(childValue)
                             THEN h[childValue.r] \o <<previousValue>>
                             ELSE <<childValue, previousValue>>)]

\* Fold without "if (childValue == null) continue": a null value is merged
\* like any other
FoldNullMerged(d, h, childName, childValue) ==
    LET previousValue == MapGet(d, childName) IN
    IF IsNullish(previousValue)
    THEN [data |-> MapSet(d, childName, childValue), heap |-> h]
    ELSE IF IsArray(previousValue)
    THEN [data |-> MapSet(d, childName, previousValue),
          heap |-> [h EXCEPT ![previousValue.r] =
                        IF IsArray(childValue)
                        THEN @ \o h[childValue.r]
                        ELSE Append(@, childValue)]]
    ELSE [data |-> MapSet(d, childName, Arr(Len(h) + 1)),
          heap |-> Append(h, IF IsArray(childValue)
                             THEN <<previousValue>> \o h[childValue.r]
                             ELSE <<previousValue, childValue>>)]

\* one turn of the for loop from "const previousValue = data.get(childName)" on:
\* the Map and the heap after folding (childName, childValue) into d
Fold(d, h, childName, childValue) ==
    LET previousValue == MapGet(d, childName) IN
    IF IsNullish(previousValue)
    THEN [data |-> MapSet(d, childName, childValue), heap |-> h]
    ELSE IF IsNullish(childValue)
    THEN [data |-> d, heap |-> h]
    ELSE IF IsArray(previousValue)
    THEN [data |-> MapSet(d, childName, previousValue),
          heap |-> [h EXCEPT ![previousValue.r] =
                        IF IsArray(childValue)
                        THEN @ \o h[childValue.r]
                        ELSE Append(@, childValue)]]
    ELSE [data |-> MapSet(d, childName, Arr(Len(h) + 1)),
          heap |-> Append(h, IF IsArray(childValue)
                             THEN <<previousValue>> \o h[childValue.r]
                             ELSE <<previousValue, childValue>>)]

\* SetSeedEntry that keeps an entry already present (first write wins)
SetSeedEntryIfAbsent(d, e) == IF MapHas(d, e.key) THEN d ELSE MapSet(d, e.key, e.val)

\* the callback of prepend.forEach / append.forEach: data.set(key, value)
SetSeedEntry(d, e) == MapSet(d, e.key, e.val)

\* the callback of data.forEach on entry e, with newValue = mutator(key, value)
MutateData(d, e, newValue) ==
    IF newValue = Undefined
    THEN MapDelete(d, e.key)
    ELSE IF newValue # e.val
    THEN MapSet(d, e.key, newValue)
    ELSE d

\* Map.prototype.forEach: the next entry it visits after position pos of the
\* entry list, 0 when there is none (emptied entries are passed over)
NextLive(d, pos) ==
    IF \E j \in Indexes(d) : j > pos /\ d[j].live
    THEN CHOOSE j \in Indexes(d) : j > pos /\ d[j].live /\ \A l \in Indexes(d) : (l > pos /\ d[l].live) => j <= l
    ELSE 0


\* the elements that reach "const childName = child.name": matched by the
\* selector and not skipped for their type
Eligible(c) == Matches(c) /\ ~IsSkippedType(c)

\* the for loop as a function: the Map and the heap after folding the controls
\* cs, in order, into d
RECURSIVE FoldAll(_, _, _)
FoldAll(cs, d, h) ==
    IF cs = <<>>
    THEN [data |-> d, heap |-> h]
    ELSE LET got    == GetChildValue(Head(cs), h)
             folded == Fold(d, got.heap, Head(cs).name, got.val)
         IN FoldAll(Tail(cs), folded.data, folded.heap)

(* ------------------------------- inputs ------------------------------- *)

NoOptions == Options("none", NoSeed, NoSeed)

\* forms of value-bearing controls, no options: the fold in full
FoldInputs ==
    { [form |-> Form("form", d), options |-> NoOptions] :
        d \in SeqsUpTo(ValueKinds \cup CustomKinds, MaxControls) }

\* forms with elements on the edge of the eligibility filter, no options
EdgeInputs ==
    { [form |-> Form("form", d), options |-> NoOptions] :
        d \in SeqsUpTo(EdgeKinds \cup {TextInput("x", "a"), TextInput("y", "b")},
                       MaxSeededControls) }

\* short forms under every combination of prepend, append and mutator
SeededInputs ==
    { [form |-> Form("form", d), options |-> Options(m, a, p)] :
        d \in SeqsUpTo(SeededKinds, MaxSeededControls),
        m \in Mutators, a \in AppendSeeds, p \in PrependSeeds }

\* containers that are no HTMLFormElement, under every combination of options
InvalidInputs ==
    { [form |-> Form(c, d), options |-> Options(m, a, p)] :
        c \in Containers \ {"form"},
        d \in {<<>>, <<TextInput("x", "a")>>},
        m \in Mutators, a \in AppendSeeds, p \in PrependSeeds }

Inputs == FoldInputs \cup EdgeInputs \cup SeededInputs \cup InvalidInputs

Init ==
    /\ \E in \in Inputs : form = in.form /\ options = in.options
    /\ heap = InitialHeap
    /\ heap0 = InitialHeap
    /\ data = <<>>
    /\ pc = "idle"
    /\ children = <<>>
    /\ i = 0
    /\ k = 0
    /\ mi = 0
    /\ walked = <<>>
    /\ events = <<>>
    /\ calls = <<>>
    /\ preMutation = <<>>
    /\ results = <<>>
    /\ ncalls = 0

(* ------------------------------ formToMap ----------------------------- *)

\* the caller calls formToMap(form, options): the argument check, then new Map()
Call ==
    /\ pc \in {"idle", "done", "error"}
    /\ ncalls < MaxCalls
    /\ ncalls' = ncalls + 1
    /\ pc' = IF IsFormElement(form) THEN "prepend" ELSE "error"
    /\ data' = <<>>
    /\ children' = <<>>
    /\ i' = 0
    /\ k' = 0
    /\ mi' = 0
    /\ walked' = <<>>
    /\ events' = <<>>
    /\ calls' = <<>>
    /\ preMutation' = <<>>
    /\ heap0' = heap
    /\ UNCHANGED <<form, options, heap, results>>

\* one callback of prepend.forEach
PrependEntry ==
    /\ pc = "prepend"
    /\ k < Len(options.prepend.entries)
    /\ data' = SetSeedEntry(data, options.prepend.entries[k + 1])
    /\ k' = k + 1
    /\ events' = Append(events, "prepend")
    /\ UNCHANGED <<form, options, heap, heap0, pc, children, i, mi, walked, calls,
                   preMutation, results, ncalls>>

\* the prepend step is over: children = [...formElement.querySelectorAll(...)]
Query ==
    /\ pc = "prepend"
    /\ k = Len(options.prepend.entries)
    /\ children' = QuerySelectorAll(form)
    /\ i' = 0
    /\ pc' = "fold"
    /\ events' = Append(events, "query")
    /\ UNCHANGED <<form, options, heap, heap0, data, k, mi, walked, calls, preMutation,
                   results, ncalls>>

\* one turn of the for loop over children ("if (!child) continue" never fires:
\* querySelectorAll yields elements only)
FoldChild ==
    /\ pc = "fold"
    /\ i < Len(children)
    /\ i' = i + 1
    /\ LET child == children[i + 1] IN
       IF IsSkippedType(child)
       THEN UNCHANGED <<heap, data, walked, events>>
       ELSE LET got    == GetChildValue(child, heap)
                folded == Fold(data, got.heap, child.name, got.val)
            IN /\ data' = folded.data
               /\ heap' = folded.heap
               /\ walked' = Append(walked, [el |-> child, name |-> child.name, val |-> got.val])
               /\ events' = IF child.custom THEN Append(events, "getValue") ELSE events
    /\ UNCHANGED <<form, options, heap0, pc, children, k, mi, calls, preMutation,
                   results, ncalls>>

\* the for loop is over
StartAppend ==
    /\ pc = "fold"
    /\ i = Len(children)
    /\ pc' = "append"
    /\ k' = 0
    /\ UNCHANGED <<form, options, heap, heap0, data, children, i, mi, walked, events,
                   calls, preMutation, results, ncalls>>

\* one callback of append.forEach
AppendEntry ==
    /\ pc = "append"
    /\ k < Len(options.append.entries)
    /\ data' = SetSeedEntry(data, options.append.entries[k + 1])
    /\ k' = k + 1
    /\ events' = Append(events, "append")
    /\ UNCHANGED <<form, options, heap, heap0, pc, children, i, mi, walked, calls,
                   preMutation, results, ncalls>>

\* the append step is over: if (mutator) data.forEach(...)
StartMutate ==
    /\ pc = "append"
    /\ k = Len(options.append.entries)
    /\ preMutation' = MapEntries(data)
    /\ mi' = 0
    /\ pc' = IF options.mutator # "none" THEN "mutate" ELSE "return"
    /\ UNCHANGED <<form, options, heap, heap0, data, children, i, k, walked, events,
                   calls, results, ncalls>>

\* one callback of data.forEach
MutateEntry ==
    /\ pc = "mutate"
    /\ NextLive(data, mi) # 0
    /\ LET j        == NextLive(data, mi)
           newValue == ApplyMutator(options.mutator, data[j].key, data[j].val)
       IN /\ mi' = j
          /\ data' = MutateData(data, data[j], newValue)
          /\ calls' = Append(calls, [key |-> data[j].key, val |-> data[j].val, ret |-> newValue])
    /\ events' = Append(events, "mutator")
    /\ UNCHANGED <<form, options, heap, heap0, pc, children, i, k, walked, preMutation,
                   results, ncalls>>

\* return data
Return ==
    /\ \/ pc = "return"
       \/ pc = "mutate" /\ NextLive(data, mi) = 0
    /\ pc' = "done"
    /\ results' = Append(results, SnapshotMap(data, heap))
    /\ UNCHANGED <<form, options, heap, heap0, data, children, i, k, mi, walked, events,
                   calls, preMutation, ncalls>>

Next ==
    \/ Call
    \/ PrependEntry
    \/ Query
    \/ FoldChild
    \/ StartAppend
    \/ AppendEntry
    \/ StartMutate
    \/ MutateEntry
    \/ Return

Spec == Init /\ [][Next]_vars


(* ============================== the claims ============================ *)

Range(seq) == { seq[j] : j \in Indexes(seq) }

\* the elements of the form that the walk gives to the fold, in document order
FoldedControls == SelectSeq(form.descendants, Eligible)

\* those named n
ControlsNamed(n) ==
    LET Named(c) == c.name = n IN SelectSeq(FoldedControls, Named)

\* the values the running call extracted from the controls named n, in order
ValuesNamed(n) ==
    LET Named(w) == w.name = n
        ws == SelectSeq(walked, Named)
    IN [j \in Indexes(ws) |-> ws[j].val]

WalkedNames == { walked[j].name : j \in Indexes(walked) }

SeedKeys(seed) == [j \in Indexes(seed.entries) |-> seed.entries[j].key]

HasKey(seed, n) == n \in Range(SeedKeys(seed))

\* the keys of a Map, in its order
Keys(m) == [j \in Indexes(MapEntries(m)) |-> MapEntries(m)[j].key]

\* a sequence without the later occurrences of its elements
RECURSIVE Dedup(_)
Dedup(seq) ==
    IF seq = <<>>
    THEN <<>>
    ELSE LET front == Dedup(SubSeq(seq, 1, Len(seq) - 1))
             last  == seq[Len(seq)]
         IN IF last \in Range(front) THEN front ELSE Append(front, last)

\* C1: without a mutator, a name shared by two or more controls, absent from
\* prepend and append, whose controls all yield strings, maps to an array
\* holding exactly those strings, one per control, in document order.
C1_SharedNameArray ==
    (pc = "done" /\ options.mutator = "none") =>
        \A n \in WalkedNames :
            LET vs == ValuesNamed(n) IN
            ( /\ Len(vs) >= 2
              /\ ~HasKey(options.prepend, n)
              /\ ~HasKey(options.append, n)
              /\ \A j \in Indexes(vs) : vs[j].k = "string" )
            => /\ MapHas(data, n)
               /\ IsArray(MapGet(data, n))
               /\ heap[MapGet(data, n).r] = vs

\* C1's case: three controls share a name, their strings differ, the call is over
C1_Witness ==
    /\ pc = "done"
    /\ options.mutator = "none"
    /\ \E n \in WalkedNames :
          /\ Len(ValuesNamed(n)) = 3
          /\ \A j \in 1..3 : ValuesNamed(n)[j].k = "string"
          /\ ValuesNamed(n)[1] # ValuesNamed(n)[2]
          /\ IsArray(MapGet(data, n))
          /\ Len(heap[MapGet(data, n).r]) = 3

\* a checkbox or radio without getValue() that is not checked / that is checked
UncheckedNative(c) == IsInputCheckable(c) /\ ~c.custom /\ ~c.checked
CheckedNative(c) == IsInputCheckable(c) /\ ~c.custom /\ c.checked

HasUnchecked(n) == \E j \in Indexes(ControlsNamed(n)) : UncheckedNative(ControlsNamed(n)[j])
HasChecked(n) == \E j \in Indexes(ControlsNamed(n)) : CheckedNative(ControlsNamed(n)[j])

\* the folded controls without the unchecked ones that have a checked sibling
Speaking(c) == ~(UncheckedNative(c) /\ HasChecked(c.name))
SpeakingControls == SelectSeq(FoldedControls, Speaking)

\* C2: with no seeds and no mutator, an unchecked checkbox/radio alone under its
\* name yields null; one whose name a checked sibling uses contributes nothing,
\* before or after the sibling: the entry is what the form without the
\* unchecked control yields, and neither is nor contains null.
C2_UncheckedPolicy ==
    (pc = "done" /\ options = NoOptions) =>
        \A n \in WalkedNames :
            /\ (Len(ControlsNamed(n)) = 1 /\ HasUnchecked(n))
                  => (MapHas(data, n) /\ MapGet(data, n) = Null)
            /\ (HasUnchecked(n) /\ HasChecked(n))
                  => LET without == FoldAll(SpeakingControls, <<>>, heap0)
                         entry   == MapGet(data, n)
                     IN /\ MapHas(data, n)
                        /\ ~IsNullish(entry)
                        /\ IsArray(entry) => \A j \in Indexes(heap[entry.r]) : ~IsNullish(heap[entry.r][j])
                        /\ Snapshot(entry, heap) = Snapshot(MapGet(without.data, n), without.heap)

\* C2's case: an unchecked box before and another after a checked sibling, and a
\* lone unchecked control under another name
C2_Witness ==
    /\ pc = "done"
    /\ options = NoOptions
    /\ \E n \in WalkedNames :
          /\ Len(ControlsNamed(n)) = 2
          /\ UncheckedNative(ControlsNamed(n)[1])
          /\ CheckedNative(ControlsNamed(n)[2])
          /\ MapGet(data, n) = Str(ControlsNamed(n)[2].value)
    /\ \E n \in WalkedNames :
          /\ Len(ControlsNamed(n)) = 1
          /\ HasUnchecked(n)
          /\ MapGet(data, n) = Null


\* the append step of the running call is over
AfterAppend == pc \in {"mutate", "return", "done"}

\* the seed's value for key n (the seed has the key)
SeedValue(seed, n) ==
    seed.entries[CHOOSE j \in Indexes(seed.entries) : seed.entries[j].key = n].val

\* the pre-mutation entry of n holds a seed's value of n together with values of
\* the controls named n: an array this call made that starts with the seed's
\* string, or the seed's own array, longer than it was when the call began
CombinedWithSeed(seed, n) ==
    LET v     == SeedValue(seed, n)
        entry == MapGet(preMutation, n)
    IN /\ \E j \in Indexes(ValuesNamed(n)) : ~IsNullish(ValuesNamed(n)[j])
       /\ IsArray(entry)
       /\ \/ /\ v.k = "string"
             /\ entry.r > Len(heap0)
             /\ Len(heap[entry.r]) >= 2
             /\ heap[entry.r][1] = v
          \/ /\ IsArray(v)
             /\ entry = v
             /\ Len(heap[v.r]) > Len(heap0[v.r])

\* C3 as claimed: every key of append maps, before mutation, to the append
\* value, and no seed value (prepend or append) is combined with the value of a
\* walked control of the same name into an array.
C3_SeedsNeverMerged ==
    AfterAppend =>
        /\ \A n \in Range(SeedKeys(options.append)) :
              MapGet(preMutation, n) = SeedValue(options.append, n)
        /\ \A n \in Range(SeedKeys(options.prepend)) : ~CombinedWithSeed(options.prepend, n)
        /\ \A n \in Range(SeedKeys(options.append)) : ~CombinedWithSeed(options.append, n)

\* C3 as amended: every key of append maps, before mutation, to the append value
\* itself, whatever the fold produced; a prepend value is set first and is then
\* the fold's existing entry: a prepend string whose key names walked controls
\* that all yield strings becomes the array [prepend value, control values...]
\* (unless append has the key too).
C3_AppendWinsPrependMerges ==
    AfterAppend =>
        /\ \A n \in Range(SeedKeys(options.append)) :
              /\ MapHas(preMutation, n)
              /\ MapGet(preMutation, n) = SeedValue(options.append, n)
        /\ \A n \in Range(SeedKeys(options.prepend)) \ Range(SeedKeys(options.append)) :
              LET vs == ValuesNamed(n) IN
              ( /\ SeedValue(options.prepend, n).k = "string"
                /\ vs # <<>>
                /\ \A j \in Indexes(vs) : vs[j].k = "string" )
              => /\ IsArray(MapGet(preMutation, n))
                 /\ heap[MapGet(preMutation, n).r] = <<SeedValue(options.prepend, n)>> \o vs

\* C3's case: append overwrote what the fold had produced for a name, and a
\* prepend string was merged with a control's value
C3_Witness ==
    /\ pc = "done"
    /\ \E n \in Range(SeedKeys(options.append)) \cap WalkedNames :
          /\ \E j \in Indexes(ValuesNamed(n)) : ~IsNullish(ValuesNamed(n)[j])
          /\ MapGet(preMutation, n) = SeedValue(options.append, n)
    /\ \E n \in Range(SeedKeys(options.prepend)) \ Range(SeedKeys(options.append)) :
          /\ SeedValue(options.prepend, n).k = "string"
          /\ IsArray(MapGet(preMutation, n))
          /\ Len(heap[MapGet(preMutation, n).r]) >= 2

\* the names of the folded controls, in document order
FoldedNames == [j \in Indexes(FoldedControls) |-> FoldedControls[j].name]

C5_KeysKnownNoUndefined ==
    /\ \A j \in Indexes(data) :
          data[j].live =>
              /\ data[j].key \in Range(SeedKeys(options.prepend)) \cup Range(FoldedNames)
                                   \cup Range(SeedKeys(options.append))
              /\ data[j].val # Undefined
    /\ \A c \in Indexes(results) : \A j \in Indexes(results[c]) :
          results[c][j].val.k # "undefined"

\* C6 as claimed: two calls in sequence on the same form and the same options
\* return structurally equal mappings.
C6_Idempotent == Len(results) >= 2 => results[1] = results[2]

\* the mutate step visited every entry of the pre-mutation mapping once, in
\* order, and left exactly the entries whose result is not undefined, each at
\* its place with the result as its value
MutatePassStable ==
    (pc = "done" /\ options.mutator # "none") =>
        /\ [j \in Indexes(calls) |-> [key |-> calls[j].key, val |-> calls[j].val]]
             = [j \in Indexes(preMutation) |-> [key |-> preMutation[j].key, val |-> preMutation[j].val]]
        /\ LET Kept(c) == c.ret # Undefined
               kept == SelectSeq(calls, Kept)
           IN [j \in Indexes(MapEntries(data)) |-> [key |-> MapEntries(data)[j].key, val |-> MapEntries(data)[j].val]]
                = [j \in Indexes(kept) |-> [key |-> kept[j].key, val |-> kept[j].ret]]

\* C7 as claimed: the mutate step is such a pass; hence an identity mutator
\* leaves the mapping as it was and a mutator that always returns undefined
\* leaves it empty.
C7_MutatorLaws ==
    /\ MutatePassStable
    /\ (pc = "done" /\ options.mutator = "identity") => MapEntries(data) = preMutation
    /\ (pc = "done" /\ options.mutator = "deleteAll") => MapEntries(data) = <<>>

\* the eligibility filter as claimed: an input, select or textarea with a
\* non-empty name, not disabled, of none of the four types
ClaimedEligible(c) ==
    /\ c.tag \in {"input", "select", "textarea"}
    /\ c.name # ""
    /\ ~c.disabled
    /\ c.type \notin {"submit", "button", "reset", "file"}

\* C8 as claimed: the controls that contribute a pair to the fold are exactly
\* the claimed-eligible descendants, in document order; a file input or a
\* control with an empty name produces no entry.
C8_EligibleIff ==
    (pc \in {"append", "mutate", "return", "done"}) =>
        /\ [j \in Indexes(walked) |-> walked[j].el] = SelectSeq(form.descendants, ClaimedEligible)
        /\ \A j \in Indexes(walked) : walked[j].el.type # "file" /\ walked[j].name # ""

\* C9: a container that is null or no HTMLFormElement ends the call in the error
\* state before anything else: no seed entry read, no control enumerated, no
\* getValue() and no mutator invoked, no Map, no returned mapping.
C9_InvalidArgument ==
    /\ form.container \in {"null", "div"} =>
          /\ pc \in {"idle", "error"}
          /\ events = <<>>
          /\ children = <<>>
          /\ walked = <<>>
          /\ calls = <<>>
          /\ data = <<>>
          /\ results = <<>>
          /\ heap = InitialHeap
    /\ (ncalls > 0 /\ form.container \in {"null", "div"}) => pc = "error"
    /\ pc = "error" => form.container \in {"null", "div"}

\* C9's case: a call with a non-form container, with descendants, both seeds
\* and a mutator, has ended in the error state
C9_Witness ==
    /\ pc = "error"
    /\ form.container = "div"
    /\ form.descendants # <<>>
    /\ options.prepend.given
    /\ options.append.given
    /\ options.mutator # "none"

\* C10 as claimed: the arrays stored in the caller's seeds are what they were
\* before the first call, and a call changes no array that existed when it began.
C10_CallerInputsUnchanged ==
    /\ \A seed \in {options.prepend, options.append} : \A j \in Indexes(seed.entries) :
          IsArray(seed.entries[j].val) =>
              heap[seed.entries[j].val.r] = InitialHeap[seed.entries[j].val.r]
    /\ \A r \in Indexes(heap0) : heap[r] = heap0[r]

=============================================================================
